---- MODULE Spec2Model ----
(***************************************************************************)
(* Lente de Custos: the negotiation report of src/src/App.tsx.             *)
(* The record set (data), the manual-entry form, the summary aggregates,   *)
(* the spreadsheet mapping and the PDF composer, as state machines.        *)
(***************************************************************************)
EXTENDS Integers, Sequences, FiniteSets, TLC

VARIABLES
    data,               \* useState<Entry[]>: the record set
    fornecedorInicial,  \* form: supplier quoted
    valorInicial,       \* form: number | ""
    fornecedorFinal,    \* form: supplier negotiated
    valorFinal,         \* form: number | ""
    contaRazao,         \* form: account category
    area,               \* form: business area
    mes,                \* form: month
    ano,                \* form: year
    periodo,            \* form: period type
    resumo,             \* what the last render computed from data (Resumo card)
    lastOp,             \* history: the last handler that ran, and for handleAdd its outcome
    pdf,                \* the export in flight (exportToPDF's locals and document)
    json,               \* history: the rows reader.onload read, while the import is the last handler
    planilha            \* the rows of the workbook exportToExcel wrote last

form == <<fornecedorInicial, valorInicial, fornecedorFinal, valorFinal,
          contaRazao, area, mes, ano, periodo>>

vars == <<data, form, resumo, lastOp, pdf, json, planilha>>

----------------------------------------------------------------------------
(* JavaScript values: a number is Num(n) or NaN, a value that may be of    *)
(* another type is also Str(s) or Undefined (an absent cell).              *)

Num(n) == [num |-> n]

Str(s) == [str |-> s]

Undefined == [undef |-> TRUE]

NaN == [nan |-> TRUE]

IsNum(v) == DOMAIN v = {"num"}

IsStr(v) == DOMAIN v = {"str"}

\* JavaScript truthiness, as used by && and ||
Truthy(v) ==
    IF IsNum(v) THEN v.num # 0
    ELSE IF IsStr(v) THEN v.str # ""
    ELSE FALSE

\* The numeric strings of the model's inputs and what Number() reads in them
NumericStrings ==
    ("0" :> 0) @@ ("500" :> 500) @@ ("800" :> 800) @@ ("1000" :> 1000)
    @@ ("-300" :> -300) @@ ("-500" :> -500)

\* Number(string): the empty string is 0, a numeric string its value, the rest NaN
ParseNumber(s) ==
    IF s = "" THEN Num(0)
    ELSE IF s \in DOMAIN NumericStrings THEN Num(NumericStrings[s])
    ELSE NaN

\* Number(v)
ToNumber(v) ==
    IF IsNum(v) THEN v
    ELSE IF IsStr(v) THEN ParseNumber(v.str)
    ELSE NaN

\* a + b, a - b, a > b on numbers: NaN spreads, and compares false
JsAdd(a, b) == IF IsNum(a) /\ IsNum(b) THEN Num(a.num + b.num) ELSE NaN

\* variant of JsSub that takes the first operand from the second
JsSubReversed(a, b) == IF IsNum(a) /\ IsNum(b) THEN Num(b.num - a.num) ELSE NaN

JsSub(a, b) == IF IsNum(a) /\ IsNum(b) THEN Num(a.num - b.num) ELSE NaN

Greater(x, y) == IsNum(x) /\ IsNum(y) /\ x.num > y.num

\* x >= y
GreaterEq(x, y) == IsNum(x) /\ IsNum(y) /\ x.num >= y.num

----------------------------------------------------------------------------
(* Bounds and input sets                                                   *)

\* the longest record set a manual addition builds
MaxData == 2

\* the most rows of an imported sheet
MaxRows == 2

\* what the user can type in a text input or pick in a select
FornecedorInicialInputs == {"", "A"}

FornecedorFinalInputs == {"", "B"}

ContaRazaoOptions == {"", "X"}

AreaOptions == {"", "Loja"}

MesOptions == {"", "Janeiro"}

AnoOptions == {"", "2025"}

PeriodoInputs == {"", "Anual"}

\* e.target.value of an <input type="number">: "" when empty or invalid
ValorInicialInputs == {"", "0", "1000"}

ValorFinalInputs == {"", "0", "800", "-300"}

----------------------------------------------------------------------------
(* Sections 5 and 6: the summary computed by every render                  *)

RECURSIVE SumInicial(_)
\* data.reduce((acc, curr) => acc + curr.valorInicial, 0)
SumInicial(d) ==
    IF Len(d) = 0 THEN Num(0)
    ELSE JsAdd(SumInicial(SubSeq(d, 1, Len(d) - 1)), d[Len(d)].valorInicial)

RECURSIVE SumFinal(_)
\* data.reduce((acc, curr) => acc + curr.valorFinal, 0)
SumFinal(d) ==
    IF Len(d) = 0 THEN Num(0)
    ELSE JsAdd(SumFinal(SubSeq(d, 1, Len(d) - 1)), d[Len(d)].valorFinal)

Digits ==
    ("0" :> 0) @@ ("1" :> 1) @@ ("2" :> 2) @@ ("3" :> 3) @@ ("4" :> 4)
    @@ ("5" :> 5) @@ ("6" :> 6) @@ ("7" :> 7) @@ ("8" :> 8) @@ ("9" :> 9)

RECURSIVE DigitsValue(_)
\* the number a string of decimal digits writes, -1 when it is not one
DigitsValue(s) ==
    IF Len(s) = 0 THEN 0
    ELSE LET c == SubSeq(s, Len(s), Len(s))
             r == DigitsValue(SubSeq(s, 1, Len(s) - 1))
         IN  IF c \in DOMAIN Digits /\ r >= 0 THEN 10 * r + Digits[c] ELSE -1

\* an object key that is an array index: a canonical numeric string below 2^32 - 1
\* (here: of at most nine digits); Object.keys lists these first, in ascending
\* numeric order, and the other keys after them in insertion order
IsArrayIndex(k) ==
    /\ Len(k) > 0
    /\ Len(k) <= 9
    /\ Len(k) > 1 => SubSeq(k, 1, 1) # "0"
    /\ DigitsValue(k) >= 0

\* item.contaRazao || "Não informada"
ContaKey(item) == IF item.contaRazao # "" THEN item.contaRazao ELSE "Não informada"

\* map[k], for a map kept as the sequence of its [key, value] in Object.keys order
MapGet(map, k) ==
    IF \E i \in 1..Len(map) : map[i].key = k
    THEN map[CHOOSE i \in 1..Len(map) : map[i].key = k].value
    ELSE Undefined

\* where a new key lands in Object.keys order
KeySlot(map, k) ==
    IF IsArrayIndex(k)
    THEN 1 + Cardinality({i \in 1..Len(map) :
                 IsArrayIndex(map[i].key) /\ DigitsValue(map[i].key) < DigitsValue(k)})
    ELSE Len(map) + 1

\* map[k] = v
MapPut(map, k, v) ==
    IF \E i \in 1..Len(map) : map[i].key = k
    THEN [i \in 1..Len(map) |-> IF map[i].key = k THEN [key |-> k, value |-> v] ELSE map[i]]
    ELSE LET p == KeySlot(map, k)
         IN  SubSeq(map, 1, p - 1) \o <<[key |-> k, value |-> v]>> \o SubSeq(map, p, Len(map))

\* (map[k] || 0) + item.valorFinal
ContaStep(map, item) ==
    LET old == MapGet(map, ContaKey(item))
    IN  MapPut(map, ContaKey(item), JsAdd(IF Truthy(old) THEN old ELSE Num(0), item.valorFinal))

RECURSIVE ContaMaisUsada(_)
\* data.reduce((map, item) => {...}, {})
ContaMaisUsada(d) ==
    IF Len(d) = 0 THEN <<>>
    ELSE ContaStep(ContaMaisUsada(SubSeq(d, 1, Len(d) - 1)), d[Len(d)])

\* variant of PickTop with >= for >: the earlier key is kept on a tie
PickTopGreaterEq(map, a, b) == IF GreaterEq(MapGet(map, a), MapGet(map, b)) THEN a ELSE b

\* variant of PickTop with < for >: the smaller sum is kept
PickTopLess(map, a, b) == IF Greater(MapGet(map, b), MapGet(map, a)) THEN a ELSE b

\* (a, b) => (contaMaisUsada[a] > contaMaisUsada[b] ? a : b)
PickTop(map, a, b) == IF Greater(MapGet(map, a), MapGet(map, b)) THEN a ELSE b

RECURSIVE ReduceTop(_, _)
\* Object.keys(contaMaisUsada).reduce(PickTop, "Nenhuma"), over the first n keys
ReduceTop(map, n) ==
    IF n = 0 THEN "Nenhuma"
    ELSE PickTop(map, ReduceTop(map, n - 1), map[n].key)

\* variant of ContaTop whose reduce starts from the empty string
ContaTopNoSentinel(map) == IF Len(map) = 0 THEN "" ELSE ReduceTop(map, Len(map))

\* Object.keys(contaMaisUsada).reduce(..., "Nenhuma")
ContaTop(map) == ReduceTop(map, Len(map))

\* contaMaisUsada[contaTop] || 0
ValorContaTop(map) ==
    LET v == MapGet(map, ContaTop(map)) IN IF Truthy(v) THEN v ELSE Num(0)

----------------------------------------------------------------------------
(* Numbers as text: toFixed(2) and toLocaleString("pt-BR", BRL)            *)

Abs(n) == IF n < 0 THEN -n ELSE n

\* a quotient kept exact: p/q; q = 0 stands for a division by zero
Ratio(p, q) == [p |-> p, q |-> q]

IsRatio(r) == DOMAIN r = {"p", "q"}

Pad2(n) == IF n < 10 THEN "0" \o ToString(n) ELSE ToString(n)

Pad3(n) == IF n < 10 THEN "00" \o ToString(n) ELSE IF n < 100 THEN "0" \o ToString(n) ELSE ToString(n)

\* r.toFixed(2): two decimals, rounded half up on the magnitude
ToFixed2(r) ==
    IF ~IsRatio(r) THEN "NaN"
    ELSE IF r.q = 0 THEN (IF r.p = 0 THEN "NaN" ELSE IF r.p < 0 THEN "-Infinity" ELSE "Infinity")
    ELSE LET h == (2 * 100 * Abs(r.p) + Abs(r.q)) \div (2 * Abs(r.q))
             neg == (r.p < 0 /\ r.q > 0) \/ (r.p > 0 /\ r.q < 0)
         IN  (IF neg THEN "-" ELSE "") \o ToString(h \div 100) \o "." \o Pad2(h % 100)

RECURSIVE Grouped(_)
\* the digits of n >= 0 in groups of three separated by "."
Grouped(n) ==
    IF n < 1000 THEN ToString(n)
    ELSE Grouped(n \div 1000) \o "." \o Pad3(n % 1000)

\* v.toLocaleString("pt-BR", {style: "currency", currency: "BRL"}), of a whole number or NaN
FormatBRL(v) ==
    IF IsNum(v)
    THEN (IF v.num < 0 THEN "-" ELSE "") \o "R$ " \o Grouped(Abs(v.num)) \o ",00"
    ELSE "R$ NaN"

\* (a / b) * 100
Percent(a, b) == IF IsNum(a) /\ IsNum(b) THEN Ratio(a.num * 100, b.num) ELSE NaN

\* variant of PercentOf with >= for >: divides by a total of 0
PercentOfGreaterEq(economia, totalInicial) ==
    IF GreaterEq(totalInicial, Num(0)) THEN Percent(economia, totalInicial) ELSE Ratio(0, 1)

\* totalInicial > 0 ? (economia / totalInicial) * 100 : 0
PercentOf(economia, totalInicial) ==
    IF Greater(totalInicial, Num(0)) THEN Percent(economia, totalInicial) ELSE Ratio(0, 1)

\* Resumo: totalInicial > 0 ? ((economia / totalInicial) * 100).toFixed(2) + "%" : "0%"
ResumoPercent(economia, totalInicial) ==
    IF Greater(totalInicial, Num(0))
    THEN ToFixed2(Percent(economia, totalInicial)) \o "%"
    ELSE "0%"

\* what one render derives from data: the totals, the leading account and the Resumo card
Render(d) ==
    LET totalInicial == SumInicial(d)
        totalFinal == SumFinal(d)
        economia == JsSub(totalInicial, totalFinal)
        contaMaisUsada == ContaMaisUsada(d)
    IN  [totalInicial   |-> totalInicial,
         totalFinal     |-> totalFinal,
         economia       |-> economia,
         contaMaisUsada |-> contaMaisUsada,
         contaTop       |-> ContaTop(contaMaisUsada),
         valorContaTop  |-> ValorContaTop(contaMaisUsada),
         percent        |-> ResumoPercent(economia, totalInicial)]

----------------------------------------------------------------------------
(* Section 4: spreadsheet import                                           *)

\* row[col] || ""   (a text column holds text or is absent)
TextOrEmpty(cell) == IF Truthy(cell) THEN cell.str ELSE ""

\* variant of NumberOrZero without the || 0
NumberNoDefault(cell) == ToNumber(cell)

\* Number(row[col]) || 0
NumberOrZero(cell) == IF Truthy(ToNumber(cell)) THEN ToNumber(cell) ELSE Num(0)

\* (row) => ({fornecedor: row["Fornecedor"] || "", ...})
RowToEntry(row) ==
    [fornecedor   |-> TextOrEmpty(row.Fornecedor),
     valorInicial |-> NumberOrZero(row.ValorCotado),
     valorFinal   |-> NumberOrZero(row.ValorFinal),
     contaRazao   |-> TextOrEmpty(row.ContaRazao),
     area         |-> TextOrEmpty(row.Area),
     mesAno       |-> TextOrEmpty(row.MesAno),
     periodo      |-> TextOrEmpty(row.Periodo)]

\* json.map(...)
FromTabularRows(rows) == [i \in 1..Len(rows) |-> RowToEntry(rows[i])]

\* rows of the sheets a user can load: a row with every cell filled (one number
\* stored as text), a row with cells missing and text in a numeric column, a row
\* with a negative and a zero number
SheetRows ==
    { [Fornecedor |-> Str("C"), ValorCotado |-> Num(500), ValorFinal |-> Str("500"),
       ContaRazao |-> Str("X"), Area |-> Str("Loja"), MesAno |-> Str("Janeiro/2025"),
       Periodo |-> Str("Anual")],
      [Fornecedor |-> Undefined, ValorCotado |-> Str("abc"), ValorFinal |-> Undefined,
       ContaRazao |-> Str(""), Area |-> Undefined, MesAno |-> Undefined,
       Periodo |-> Undefined],
      [Fornecedor |-> Str("E"), ValorCotado |-> Num(-500), ValorFinal |-> Num(0),
       ContaRazao |-> Str("Y"), Area |-> Undefined, MesAno |-> Undefined,
       Periodo |-> Undefined] }

Sheets == UNION { [1..n -> SheetRows] : n \in 0..MaxRows }

\* x || "", of strings
OrEmpty(x) == IF x # "" THEN x ELSE ""

\* variant of ToTabularRow that fills both value columns from valorInicial
ToTabularRowOneValue(item) ==
    [Fornecedor  |-> Str(item.fornecedor),
     ValorCotado |-> item.valorInicial,
     ValorFinal  |-> item.valorInicial,
     ContaRazao  |-> Str(OrEmpty(item.contaRazao)),
     Area        |-> Str(OrEmpty(item.area)),
     MesAno      |-> Str(OrEmpty(item.mesAno)),
     Periodo     |-> Str(OrEmpty(item.periodo))]

\* (item) => ({"Fornecedor": item.fornecedor, ...}) of exportToExcel
ToTabularRow(item) ==
    [Fornecedor  |-> Str(item.fornecedor),
     ValorCotado |-> item.valorInicial,
     ValorFinal  |-> item.valorFinal,
     ContaRazao  |-> Str(OrEmpty(item.contaRazao)),
     Area        |-> Str(OrEmpty(item.area)),
     MesAno      |-> Str(OrEmpty(item.mesAno)),
     Periodo     |-> Str(OrEmpty(item.periodo))]

\* data.map(...) of exportToExcel
ToTabularRows(entries) == [i \in 1..Len(entries) |-> ToTabularRow(entries[i])]

\* a cell as sheet_to_json gives it back: a number and a text as written; an empty
\* text as the empty string or as no cell at all, the same way in the whole sheet
CellRead(cell, keepEmpty) == IF cell = Str("") /\ ~keepEmpty THEN Undefined ELSE cell

\* the rows sheet_to_json can read in the workbook json_to_sheet made of rows
ReadBacks(rows) ==
    { [i \in 1..Len(rows) |-> [col \in DOMAIN rows[i] |-> CellRead(rows[i][col], keepEmpty)]] :
         keepEmpty \in BOOLEAN }

\* Exportar Excel: the rows of data go to the workbook that is written
exportToExcel ==
    /\ planilha' = ToTabularRows(data)
    /\ lastOp' = "exportToExcel"
    /\ json' = <<>>
    /\ UNCHANGED <<data, resumo, form, pdf>>

\* the sheets the user can pick: one made elsewhere, or the workbook exported last
Uploads == Sheets \cup ReadBacks(planilha)

\* reader.onload: setData(importedData), then the render
handleFileUpload ==
    /\ \E rows \in Uploads :
          /\ json' = rows
          /\ data' = FromTabularRows(rows)
    /\ resumo' = Render(data')
    /\ lastOp' = "import"
    /\ UNCHANGED <<form, pdf, planilha>>

----------------------------------------------------------------------------
(* Section 5: manual entry                                                 *)

setFornecedorInicial ==
    /\ \E v \in FornecedorInicialInputs : fornecedorInicial' = v
    /\ lastOp' = "set"
    /\ json' = <<>>
    /\ UNCHANGED planilha
    /\ UNCHANGED <<data, resumo, valorInicial, fornecedorFinal, valorFinal, contaRazao,
                   area, mes, ano, periodo, pdf>>

\* setValorInicial(Number(e.target.value))
setValorInicial ==
    /\ \E v \in ValorInicialInputs : valorInicial' = ToNumber(Str(v))
    /\ lastOp' = "set"
    /\ json' = <<>>
    /\ UNCHANGED planilha
    /\ UNCHANGED <<data, resumo, fornecedorInicial, fornecedorFinal, valorFinal,
                   contaRazao, area, mes, ano, periodo, pdf>>

setFornecedorFinal ==
    /\ \E v \in FornecedorFinalInputs : fornecedorFinal' = v
    /\ lastOp' = "set"
    /\ json' = <<>>
    /\ UNCHANGED planilha
    /\ UNCHANGED <<data, resumo, fornecedorInicial, valorInicial, valorFinal, contaRazao,
                   area, mes, ano, periodo, pdf>>

\* setValorFinal(Number(e.target.value))
setValorFinal ==
    /\ \E v \in ValorFinalInputs : valorFinal' = ToNumber(Str(v))
    /\ lastOp' = "set"
    /\ json' = <<>>
    /\ UNCHANGED planilha
    /\ UNCHANGED <<data, resumo, fornecedorInicial, valorInicial, fornecedorFinal,
                   contaRazao, area, mes, ano, periodo, pdf>>

setContaRazao ==
    /\ \E v \in ContaRazaoOptions : contaRazao' = v
    /\ lastOp' = "set"
    /\ json' = <<>>
    /\ UNCHANGED planilha
    /\ UNCHANGED <<data, resumo, fornecedorInicial, valorInicial, fornecedorFinal,
                   valorFinal, area, mes, ano, periodo, pdf>>

setArea ==
    /\ \E v \in AreaOptions : area' = v
    /\ lastOp' = "set"
    /\ json' = <<>>
    /\ UNCHANGED planilha
    /\ UNCHANGED <<data, resumo, fornecedorInicial, valorInicial, fornecedorFinal,
                   valorFinal, contaRazao, mes, ano, periodo, pdf>>

setMes ==
    /\ \E v \in MesOptions : mes' = v
    /\ lastOp' = "set"
    /\ json' = <<>>
    /\ UNCHANGED planilha
    /\ UNCHANGED <<data, resumo, fornecedorInicial, valorInicial, fornecedorFinal,
                   valorFinal, contaRazao, area, ano, periodo, pdf>>

setAno ==
    /\ \E v \in AnoOptions : ano' = v
    /\ lastOp' = "set"
    /\ json' = <<>>
    /\ UNCHANGED planilha
    /\ UNCHANGED <<data, resumo, fornecedorInicial, valorInicial, fornecedorFinal,
                   valorFinal, contaRazao, area, mes, periodo, pdf>>

setPeriodo ==
    /\ \E v \in PeriodoInputs : periodo' = v
    /\ lastOp' = "set"
    /\ json' = <<>>
    /\ UNCHANGED planilha
    /\ UNCHANGED <<data, resumo, fornecedorInicial, valorInicial, fornecedorFinal,
                   valorFinal, contaRazao, area, mes, ano, pdf>>

\* variant of FormComplete that forgets valorFinal
FormCompleteNoFinal ==
    /\ fornecedorInicial # ""
    /\ Truthy(valorInicial)
    /\ fornecedorFinal # ""

\* fornecedorInicial && valorInicial && fornecedorFinal && valorFinal
FormComplete ==
    /\ fornecedorInicial # ""
    /\ Truthy(valorInicial)
    /\ fornecedorFinal # ""
    /\ Truthy(valorFinal)

\* the object literal handleAdd appends
FormEntry ==
    [fornecedor   |-> fornecedorInicial \o " → " \o fornecedorFinal,
     valorInicial |-> ToNumber(valorInicial),
     valorFinal   |-> ToNumber(valorFinal),
     contaRazao   |-> contaRazao,
     area         |-> area,
     mesAno       |-> IF mes # "" /\ ano # "" THEN mes \o "/" \o ano ELSE "",
     periodo      |-> periodo]

\* handleAdd: setData([...data, entry]) and the nine resets, or nothing
handleAdd ==
    /\ Len(data) < MaxData
    /\ IF FormComplete
       THEN /\ data' = Append(data, FormEntry)
            /\ resumo' = Render(data')
            /\ fornecedorInicial' = ""
            /\ valorInicial' = Str("")
            /\ fornecedorFinal' = ""
            /\ valorFinal' = Str("")
            /\ contaRazao' = ""
            /\ area' = ""
            /\ mes' = ""
            /\ ano' = ""
            /\ periodo' = ""
            /\ lastOp' = "added"
       ELSE /\ lastOp' = "rejected"
            /\ UNCHANGED <<data, resumo, form>>
    /\ json' = <<>>
    /\ UNCHANGED <<pdf, planilha>>

\* the window keydown listener: if (e.key === "Enter") handleAdd()
keydownEnter == handleAdd

\* Limpar tudo: setData([])
LimparTudo ==
    /\ data' = <<>>
    /\ resumo' = Render(data')
    /\ lastOp' = "limparTudo"
    /\ json' = <<>>
    /\ UNCHANGED <<form, pdf, planilha>>

\* variant of DropLast that drops the first element
DropFirst(prev) == SubSeq(prev, 2, Len(prev))

\* prev.slice(0, -1)
DropLast(prev) == SubSeq(prev, 1, Len(prev) - 1)

\* Limpar ultimo: setData((prev) => prev.slice(0, -1))
LimparUltimo ==
    /\ data' = DropLast(data)
    /\ resumo' = Render(data')
    /\ lastOp' = "limparUltimo"
    /\ json' = <<>>
    /\ UNCHANGED <<form, pdf, planilha>>

----------------------------------------------------------------------------
(* Section 3: limparTexto                                                  *)

\* normalize("NFD") followed by the removal of the combining marks
Unaccent ==
    ("á" :> "a") @@ ("à" :> "a") @@ ("â" :> "a") @@ ("ã" :> "a") @@ ("ä" :> "a")
    @@ ("é" :> "e") @@ ("è" :> "e") @@ ("ê" :> "e") @@ ("í" :> "i") @@ ("ó" :> "o")
    @@ ("ô" :> "o") @@ ("õ" :> "o") @@ ("ö" :> "o") @@ ("ú" :> "u") @@ ("ü" :> "u")
    @@ ("ç" :> "c") @@ ("Á" :> "A") @@ ("É" :> "E") @@ ("Í" :> "I") @@ ("Ó" :> "O")
    @@ ("Ú" :> "U") @@ ("Ç" :> "C")

\* the characters of [a-zA-Z0-9À-ÿ,.!?()\-] that are left after the accents are
\* gone: the letters, the digits, the punctuation and the characters of À-ÿ that
\* have no accent to lose; white space is handled apart
AllowedChars ==
    { "a","b","c","d","e","f","g","h","i","j","k","l","m","n","o","p","q","r","s","t",
      "u","v","w","x","y","z","A","B","C","D","E","F","G","H","I","J","K","L","M","N",
      "O","P","Q","R","S","T","U","V","W","X","Y","Z","0","1","2","3","4","5","6","7",
      "8","9",",",".","!","?","(",")","-","Æ","Ð","×","Ø","Þ","ß","æ","ð","÷","ø","þ" }

RECURSIVE StripChars(_)
\* the first two replaces: accents to base letters, characters off the list deleted
StripChars(s) ==
    IF Len(s) = 0 THEN ""
    ELSE LET c == SubSeq(s, 1, 1)
             k == IF c \in DOMAIN Unaccent THEN Unaccent[c]
                  ELSE IF c \in AllowedChars \/ c = " " THEN c
                  ELSE ""
         IN  k \o StripChars(SubSeq(s, 2, Len(s)))

RECURSIVE CollapseSpaces(_)
\* replace(/\s+/g, " ")
CollapseSpaces(s) ==
    IF Len(s) < 2 THEN s
    ELSE IF SubSeq(s, 1, 1) = " " /\ SubSeq(s, 2, 2) = " "
         THEN CollapseSpaces(SubSeq(s, 2, Len(s)))
         ELSE SubSeq(s, 1, 1) \o CollapseSpaces(SubSeq(s, 2, Len(s)))

\* trim(), of a string whose runs of spaces are single
Trim(s) ==
    LET a == IF Len(s) > 0 /\ SubSeq(s, 1, 1) = " " THEN SubSeq(s, 2, Len(s)) ELSE s
    IN  IF Len(a) > 0 /\ SubSeq(a, Len(a), Len(a)) = " " THEN SubSeq(a, 1, Len(a) - 1) ELSE a

limparTexto(texto) == Trim(CollapseSpaces(StripChars(texto)))

----------------------------------------------------------------------------
(* Section 8: exportToPDF                                                  *)

\* pdf.internal.pageSize.getHeight() of an A4 page, in mm
pageHeight == 297

pdfWidth == 180

lineHeight == 7

\* mm taken by one character of the 12 pt body font (splitTextToSize measures
\* text with the font's metrics; here every character is as wide as the next)
CharWidth == 2

\* the most entries of a record set that is exported
MaxPdfData == 7

\* variant of Refs that captures the suppliers chart before the pie chart
RefsBarFirst == <<"bar", "pie", "conta">>

\* the refs in the order exportToPDF passes them to addImage
Refs == <<"pie", "bar", "conta">>

\* width and height in pixels of the images toPng can return
ImgSizes ==
    { [width |-> 900, height |-> 300],
      [width |-> 900, height |-> 750] }

\* no export has been started
PdfIdle == [pc |-> "idle"]

\* const pdf = new jsPDF("p", "mm", "a4"); let y = 10; with the closure of the render
NewPdf(entries, summary) ==
    [pc |-> "cover", y |-> 10, pages |-> 1, prims |-> <<>>, saves |-> 0,
     entries |-> entries, resumo |-> summary]

\* pdf.addPage()
AddPage(c) == [c EXCEPT !.pages = @ + 1]

\* pdf.text(l, x, y) on the current page
Text(c, sec, l) ==
    [c EXCEPT !.prims = Append(@, [kind |-> "text", sec |-> sec, page |-> c.pages,
                                   y |-> c.y, text |-> l])]

\* the title: pdf.text("Relatório de Negociações", ...); y += 10
Cover(c) == [Text(c, "cover", "Relatório de Negociações") EXCEPT !.y = @ + 10, !.pc = "charts"]

\* addImage with ref.current set: the image at the cursor, y += pdfHeight + 10
PlaceImage(c, ref, img) ==
    LET pdfHeight == (img.height * pdfWidth) \div img.width
    IN  [c EXCEPT !.prims = Append(@, [kind |-> "image", sec |-> ref, page |-> c.pages,
                                       y |-> c.y, height |-> pdfHeight]),
                  !.y = @ + pdfHeight + 10]

RECURSIVE SplitTextToSize(_, _)
\* pdf.splitTextToSize(linha, maxWidth): the lines that each fit maxWidth
SplitTextToSize(linha, maxWidth) ==
    LET n == maxWidth \div CharWidth
    IN  IF Len(linha) <= n THEN <<linha>>
        ELSE <<SubSeq(linha, 1, n)>> \o SplitTextToSize(SubSeq(linha, n + 1, Len(linha)), maxWidth)

\* variant of PlaceLine without the overflow check
PlaceLineNoCheck(c, sec, l) == [Text(c, sec, l) EXCEPT !.y = @ + lineHeight]

\* if (y > 280) { pdf.addPage(); y = 20; }  pdf.text(l, 15, y);  y += lineHeight;
PlaceLine(c, sec, l) ==
    IF c.y > 280
    THEN [Text([AddPage(c) EXCEPT !.y = 20], sec, l) EXCEPT !.y = @ + lineHeight]
    ELSE [Text(c, sec, l) EXCEPT !.y = @ + lineHeight]

RECURSIVE PlaceLines(_, _, _)
\* lines.forEach((l) => {...})
PlaceLines(c, sec, lines) ==
    IF Len(lines) = 0 THEN c
    ELSE PlaceLine(PlaceLines(c, sec, SubSeq(lines, 1, Len(lines) - 1)), sec, lines[Len(lines)])

RECURSIVE PlaceTexto(_, _, _)
\* texto.forEach((linha) => { const lines = pdf.splitTextToSize(linha, 180); ... }),
\* in the section sec
PlaceTexto(c, sec, texto) ==
    IF Len(texto) = 0 THEN c
    ELSE LET before == PlaceTexto(c, sec, SubSeq(texto, 1, Len(texto) - 1))
         IN  CASE before.pc = sec ->
                  PlaceLines(before, sec, SplitTextToSize(texto[Len(texto)], 180))

\* x || alt, of strings
OrElse(x, alt) == IF x # "" THEN x ELSE alt

\* the four sentences written for one entry
Texto(item) ==
    LET economiaAbs == JsSub(item.valorInicial, item.valorFinal)
        economiaPerc == PercentOf(economiaAbs, item.valorInicial)
    IN  << "Analisou-se a negociação referente a " \o limparTexto(item.fornecedor) \o ".",
           "Na área " \o limparTexto(OrElse(item.area, "não informada"))
              \o ", vinculada à conta "
              \o limparTexto(OrElse(item.contaRazao, "não informada")) \o ",",
           "em " \o OrElse(item.mesAno, "período não informado") \o ".",
           "O valor inicialmente cotado foi de " \o FormatBRL(item.valorInicial)
              \o ", enquanto o valor final ficou em " \o FormatBRL(item.valorFinal)
              \o ", gerando uma economia de " \o FormatBRL(economiaAbs)
              \o " (" \o ToFixed2(economiaPerc) \o "%)." >>

RECURSIVE Narrative(_, _)
\* data.forEach((item) => { ...; y += 5; }), over the entries of the closure
Narrative(c, entries) ==
    IF Len(entries) = 0 THEN c
    ELSE LET before == Narrative(c, SubSeq(entries, 1, Len(entries) - 1))
         IN  CASE before.pc = "narrative" ->
                  [PlaceTexto(before, "narrative", Texto(entries[Len(entries)]))
                      EXCEPT !.y = @ + 5]

\* the two sentences of the consolidated block, from the closure's render
Consolidado(summary) ==
    LET economiaGeral == JsSub(summary.totalInicial, summary.totalFinal)
        economiaGeralPerc == PercentOf(economiaGeral, summary.totalInicial)
    IN  << "No consolidado geral, o valor total cotado foi de "
              \o FormatBRL(summary.totalInicial)
              \o ", enquanto o valor final negociado foi de "
              \o FormatBRL(summary.totalFinal) \o ".",
           "Esse resultado representou uma economia absoluta de "
              \o FormatBRL(economiaGeral) \o ", equivalente a "
              \o ToFixed2(economiaGeralPerc) \o "%. A conta mais utilizada foi "
              \o summary.contaTop \o "." >>

\* variant of StartText that goes on below the charts, on their page
StartTextNoPage(c) ==
    [Text([c EXCEPT !.y = 20, !.pc = "narrative"], "narrative", "Análise do Relatório")
        EXCEPT !.y = @ + 10]

\* variant of StartText that keeps the cursor of the charts section
StartTextNoReset(c) ==
    [Text([AddPage(c) EXCEPT !.pc = "narrative"], "narrative", "Análise do Relatório")
        EXCEPT !.y = @ + 10]

\* pdf.addPage(); y = 20; pdf.text("Análise do Relatório", ...); y += 10;
StartText(c) ==
    [Text([AddPage(c) EXCEPT !.y = 20, !.pc = "narrative"], "narrative", "Análise do Relatório")
        EXCEPT !.y = @ + 10]

\* variant of Finish that reads the record set and the totals of the latest
\* render, not those of the render exportToPDF was created in
FinishLive(c) ==
    LET n == Narrative(StartText(c), data)
        k == PlaceTexto([n EXCEPT !.y = @ + 5, !.pc = "consolidated"], "consolidated",
                        Consolidado(resumo))
    IN  [k EXCEPT !.pc = "saved", !.saves = @ + 1]

\* lines 229-299: the text page, the entries, the consolidated block, pdf.save
Finish(c) ==
    LET n == Narrative(StartText(c), c.entries)
        k == PlaceTexto([n EXCEPT !.y = @ + 5, !.pc = "consolidated"], "consolidated",
                        Consolidado(c.resumo))
    IN  [k EXCEPT !.pc = "saved", !.saves = @ + 1]

\* runs exportToPDF up to its next suspension: the await of toPng for Refs[j],
\* or, with no ref left that is set (j = 4), the end
AwaitRef(c, j) == IF j <= Len(Refs) THEN [c EXCEPT !.pc = Refs[j]] ELSE Finish(c)

RefIndex(name) == CHOOSE i \in 1..Len(Refs) : Refs[i] = name

Exporting == pdf.pc \in {Refs[i] : i \in 1..Len(Refs)}

\* click on Exportar PDF (one export is followed): the title, then
\* addImage(pieRef) ... ; a ref whose current is null is passed over (refs
\* 1..j-1), the first one set is awaited
exportToPDF ==
    /\ pdf.pc = "idle"
    /\ \E j \in 1..(Len(Refs) + 1) : pdf' = AwaitRef(Cover(NewPdf(data, resumo)), j)
    /\ UNCHANGED <<data, form, resumo, lastOp, json, planilha>>

\* htmlToImage.toPng resolves: the image is placed and the export runs on
toPngResolves ==
    /\ Exporting
    /\ \E img \in ImgSizes, j \in (RefIndex(pdf.pc) + 1)..(Len(Refs) + 1) :
          pdf' = AwaitRef(PlaceImage(pdf, pdf.pc, img), j)
    /\ UNCHANGED <<data, form, resumo, lastOp, json, planilha>>

----------------------------------------------------------------------------
(* Specifications                                                          *)

BlankForm ==
    /\ fornecedorInicial = ""
    /\ valorInicial = Str("")
    /\ fornecedorFinal = ""
    /\ valorFinal = Str("")
    /\ contaRazao = ""
    /\ area = ""
    /\ mes = ""
    /\ ano = ""
    /\ periodo = ""

\* useState([]), useState(""): the state after the first render
Init ==
    /\ data = <<>>
    /\ BlankForm
    /\ resumo = Render(data)
    /\ lastOp = "none"
    /\ json = <<>>
    /\ planilha = <<>>
    /\ pdf = PdfIdle

SetRequired ==
    \/ setFornecedorInicial
    \/ setValorInicial
    \/ setFornecedorFinal
    \/ setValorFinal

SetOptional ==
    \/ setContaRazao
    \/ setArea
    \/ setMes
    \/ setAno
    \/ setPeriodo

Next ==
    \/ SetRequired
    \/ SetOptional
    \/ handleAdd
    \/ keydownEnter
    \/ handleFileUpload
    \/ LimparTudo
    \/ LimparUltimo
    \/ exportToExcel
    \/ exportToPDF
    \/ toPngResolves

\* the whole application
Spec == Init /\ [][Next]_vars

\* The record set under every operation that changes it; the optional fields
\* stay as the form starts them.
NextData ==
    \/ setFornecedorInicial
    \/ setValorInicial
    \/ setFornecedorFinal
    \/ setValorFinal
    \/ handleAdd
    \/ keydownEnter
    \/ handleFileUpload
    \/ LimparTudo
    \/ LimparUltimo

SpecData == Init /\ [][NextData]_vars

\* The form, all nine fields, in front of a record set loaded from a sheet that
\* leaves room for one manual addition.
InitForm ==
    /\ data = [i \in 1..(MaxData - 1) |-> RowToEntry(CHOOSE r \in SheetRows : r.Fornecedor = Str("C"))]
    /\ BlankForm
    /\ resumo = Render(data)
    /\ lastOp = "none"
    /\ json = <<>>
    /\ planilha = <<>>
    /\ pdf = PdfIdle

NextForm ==
    \/ setFornecedorInicial
    \/ setValorInicial
    \/ setFornecedorFinal
    \/ setValorFinal
    \/ setContaRazao
    \/ setArea
    \/ setMes
    \/ setAno
    \/ setPeriodo
    \/ handleAdd
    \/ keydownEnter

SpecForm == InitForm /\ [][NextForm]_vars

\* The summary over record sets of up to MaxAgg entries.
MaxAgg == 3

AggEntry(vi, vf, conta) ==
    [fornecedor |-> "A → B", valorInicial |-> Num(vi), valorFinal |-> Num(vf), contaRazao |-> conta,
     area |-> "", mesAno |-> "", periodo |-> ""]

AggEntries ==
    { AggEntry(vi, vf, c) : vi \in {-500, 0, 1000}, vf \in {500, 800}, c \in {"", "X"} }
    \cup { AggEntry(500, 500, "X"), AggEntry(1000, 800, "7"), AggEntry(500, 800, "Y"),
           AggEntry(500, -300, "X"), AggEntry(0, 0, "Nenhuma") }

InitAgg ==
    /\ data \in UNION { [1..n -> AggEntries] : n \in 0..MaxAgg }
    /\ BlankForm
    /\ resumo = Render(data)
    /\ lastOp = "none"
    /\ json = <<>>
    /\ planilha = <<>>
    /\ pdf = PdfIdle

NextAgg ==
    \/ LimparTudo
    \/ LimparUltimo

SpecAgg == InitAgg /\ [][NextAgg]_vars

\* One export of a record set of up to MaxPdfData entries: every record set of up to
\* MaxPdfMixed entries, and the longer ones made of one entry repeated.
MaxPdfMixed == 3

PdfEntries ==
    { [fornecedor |-> "A → B", valorInicial |-> Num(1000), valorFinal |-> Num(800), contaRazao |-> "X",
       area |-> "Loja", mesAno |-> "Janeiro/2025", periodo |-> "Anual"],
      [fornecedor |-> "", valorInicial |-> Num(0), valorFinal |-> Num(0), contaRazao |-> "",
       area |-> "", mesAno |-> "", periodo |-> ""] }

InitPdf ==
    /\ data \in UNION { [1..n -> PdfEntries] : n \in 0..MaxPdfMixed }
               \cup { [i \in 1..n |-> e] : n \in (MaxPdfMixed + 1)..MaxPdfData, e \in PdfEntries }
    /\ BlankForm
    /\ resumo = Render(data)
    /\ lastOp = "none"
    /\ json = <<>>
    /\ planilha = <<>>
    /\ pdf = PdfIdle

NextPdf ==
    \/ exportToPDF
    \/ toPngResolves

SpecPdf == InitPdf /\ [][NextPdf]_vars

\* One export, with every toPng that is awaited resolving in the end: the weak
\* fairness WF_vars(toPngResolves), with ENABLED <<toPngResolves>>_vars written
\* out (toPngResolves is enabled exactly while a toPng is awaited, and changes pdf).
toPngFair == []<>(~Exporting) \/ []<><<toPngResolves>>_vars

SpecPdfLive == SpecPdf /\ toPngFair

----------------------------------------------------------------------------
(* The leading account (section 6), stated from the record set alone       *)

\* the categories of a record set, as the map keys them
Cats(d) == { ContaKey(d[i]) : i \in 1..Len(d) }

RECURSIVE SumOf(_, _)
\* the sum of valorFinal over the entries of category k
SumOf(d, k) ==
    IF Len(d) = 0 THEN Num(0)
    ELSE LET rest == SumOf(SubSeq(d, 1, Len(d) - 1), k)
         IN  IF ContaKey(d[Len(d)]) = k THEN JsAdd(rest, d[Len(d)].valorFinal) ELSE rest

\* the categories whose sum no other category exceeds
MaxCats(d) == { k \in Cats(d) : \A j \in Cats(d) : GreaterEq(SumOf(d, k), SumOf(d, j)) }

\* where category k is first encountered in the record set
FirstSeen(d, k) == CHOOSE i \in 1..Len(d) : ContaKey(d[i]) = k /\ \A j \in 1..(i - 1) : ContaKey(d[j]) # k

\* j comes before k when the keys of the map are listed: integer-like names in
\* ascending order, then the other names as first encountered
KeyBefore(d, j, k) ==
    IF IsArrayIndex(j)
    THEN IsArrayIndex(k) => DigitsValue(j) < DigitsValue(k)
    ELSE ~IsArrayIndex(k) /\ FirstSeen(d, j) < FirstSeen(d, k)

Tied == Cardinality(MaxCats(data)) >= 2

----------------------------------------------------------------------------
(* The percentage saved (Resumo card and consolidated text)                *)

\* t occurs in s
HasSub(s, t) == \E i \in 1..(Len(s) - Len(t) + 1) : SubSeq(s, i, i + Len(t) - 1) = t

\* the consolidated sentence that carries the percentage
ConsolidadoPercentLine == Consolidado(resumo)[2]

----------------------------------------------------------------------------
(* The record set under the operations that change it                      *)

\* C4: every record has valorInicial and valorFinal that are numbers (never NaN or
\* undefined) and >= 0, after any sequence of imports, additions and truncations.
C4_NumericFieldsNonNegative ==
    \A i \in 1..Len(data) :
        /\ IsNum(data[i].valorInicial) /\ data[i].valorInicial.num >= 0
        /\ IsNum(data[i].valorFinal) /\ data[i].valorFinal.num >= 0

\* one entry was appended at the end, the others kept as they were
AppendedOne == Len(data') = Len(data) + 1 /\ SubSeq(data', 1, Len(data)) = data

\* the last entry was dropped, the others kept as they were
DroppedLast == Len(data) > 0 /\ data' = SubSeq(data, 1, Len(data) - 1)

DroppedAll == data' = <<>>

\* C7 as stated: every step of the record set, under any operation (manual add,
\* Enter, import, clear all, clear last), appends one entry at the end, drops the
\* last entry or drops all entries; the entries that remain keep place and fields.
C7_AppendOrTruncateOnly ==
    [][data' # data => AppendedOne \/ DroppedLast \/ DroppedAll]_vars

\* C7 amended: every step of the record set appends one entry at the end, drops the
\* last entry or drops all entries, the entries that remain keeping place and fields,
\* OR, when the step is a spreadsheet import, replaces the whole record set by the
\* entries read from the sheet's rows.
C7_AppendTruncateOrImport ==
    [][data' # data =>
          \/ AppendedOne
          \/ DroppedLast
          \/ DroppedAll
          \/ /\ lastOp' = "import"
             /\ Len(data') <= MaxRows
             /\ \A i \in 1..Len(data') : \E row \in SheetRows : data'[i] = RowToEntry(row)]_vars

\* clear last has run on two manual records: the first one stays
C7_Witness ==
    /\ lastOp = "limparUltimo"
    /\ Len(data) = 1
    /\ data[1].fornecedor = "A → B"

----------------------------------------------------------------------------
(* handleAdd                                                               *)

\* a required field is missing: a text field is empty, a numeric field was never filled
RequiredMissing ==
    \/ fornecedorInicial = ""
    \/ valorInicial = Str("")
    \/ fornecedorFinal = ""
    \/ valorFinal = Str("")

\* C5: handleAdd appends exactly one record, built from the form, at the end of the
\* record set exactly when the four required fields are present and the two numeric
\* fields are non-empty, whatever number they hold; otherwise it appends none.
C5_AcceptedWhenPresent ==
    [][lastOp' \in {"added", "rejected"} =>
          IF ~RequiredMissing THEN data' = Append(data, FormEntry) ELSE data' = data]_vars

\* C6: a handleAdd with valorFinal missing, or another required field missing, adds
\* no record: the record set, its length and every form field are unchanged.
C6_MissingFieldRejected ==
    [][(lastOp' \in {"added", "rejected"} /\ RequiredMissing) =>
          /\ data' = data
          /\ Len(data') = Len(data)
          /\ form' = form]_vars

\* handleAdd has run on a form where only valorFinal was never filled
C6_Witness ==
    /\ lastOp = "rejected"
    /\ fornecedorInicial = "A"
    /\ valorInicial = Num(1000)
    /\ fornecedorFinal = "B"
    /\ valorFinal = Str("")
    /\ Len(data) = MaxData - 1

----------------------------------------------------------------------------
(* The document of one export                                              *)

Started == pdf.pc # "idle"

\* the primitives of the kind and sections asked for, in the order they were placed
RECURSIVE Select(_, _, _)
Select(prims, kind, secs) ==
    IF Len(prims) = 0 THEN <<>>
    ELSE LET p == prims[Len(prims)]
             rest == Select(SubSeq(prims, 1, Len(prims) - 1), kind, secs)
         IN  IF p.kind = kind /\ p.sec \in secs THEN Append(rest, p) ELSE rest

\* the text lines of the narrative and consolidated sections
TextLines == Select(pdf.prims, "text", {"narrative", "consolidated"})

\* the chart images
Images == Select(pdf.prims, "image", {Refs[i] : i \in 1..Len(Refs)})

\* the most lines one page takes between the top margin and the bottom margin
PageCapacity == (280 - 20) \div lineHeight + 1

\* C8: every text line of the narrative and consolidated sections is on one page, at
\* an offset between the top margin 20 and the bottom margin 280; a line follows
\* the one before it lower on the same page or at the top of the next page; and a
\* saved document with more lines than one page takes has more than one text page.
C8_TextPagination ==
    Started =>
      /\ \A i \in 1..Len(TextLines) :
            /\ TextLines[i].y >= 20
            /\ TextLines[i].y <= 280
            /\ TextLines[i].page \in 2..pdf.pages
      /\ \A i \in 1..(Len(TextLines) - 1) :
            \/ /\ TextLines[i + 1].page = TextLines[i].page
               /\ TextLines[i + 1].y >= TextLines[i].y + lineHeight
            \/ /\ TextLines[i + 1].page = TextLines[i].page + 1
               /\ TextLines[i + 1].y = 20
      /\ (pdf.pc = "saved" /\ Len(TextLines) > PageCapacity) => pdf.pages - 1 > 1

\* a saved document whose lines do not fit one page: a line opens the second text page
C8_Witness ==
    /\ pdf.pc = "saved"
    /\ Len(TextLines) > PageCapacity
    /\ pdf.pages >= 3
    /\ \E i \in 2..Len(TextLines) :
          /\ TextLines[i].page = 3
          /\ TextLines[i].y = 20
          /\ TextLines[i - 1].page = 2
          /\ TextLines[i - 1].y + lineHeight > 280

\* C9: every chart image lies on one page: its top is at the cursor and its top plus
\* its scaled height does not pass the end of the page, whatever the three heights.
C9_ImagesFitThePage ==
    Started => \A i \in 1..Len(Images) : Images[i].y + Images[i].height <= pageHeight

\* what the text part of the document is for a record set and its render, with no
\* chart image placed
TextOnly(entries, summary) ==
    Select(Finish(Cover(NewPdf(entries, summary))).prims, "text", {"narrative", "consolidated"})

\* C10 (layout): a saved document was saved once; its text lines are, with their
\* pages and offsets, those of the record set whatever images were placed; the
\* text starts at the top margin of page 2; the images are on page 1, the first at
\* the cursor left by the title and each next one 10 below the end of the one before
\* (an image that is missing moves nothing).
C10_Layout ==
    /\ pdf.pc \in {"idle", "pie", "bar", "conta", "saved"}
    /\ Started =>
         /\ \A i \in 1..Len(Images) :
               /\ Images[i].page = 1
               /\ Images[i].y = IF i = 1 THEN 20
                                ELSE Images[i - 1].y + Images[i - 1].height + 10
         /\ \A i \in 1..(Len(Images) - 1) :
               RefIndex(Images[i].sec) < RefIndex(Images[i + 1].sec)
    /\ pdf.pc = "saved" =>
         /\ pdf.saves = 1
         /\ TextLines = TextOnly(pdf.entries, pdf.resumo)
         /\ TextLines[1].page = 2
         /\ TextLines[1].y = 20
         /\ pdf.pages = TextLines[Len(TextLines)].page

\* C10: the composer is fail-soft about images: for every subset of the three chart
\* images that is missing, an export that was started reaches its end and saves a
\* document; a missing image is skipped without moving the cursor; and the page and
\* offset of every narrative and consolidated line are the same as with all images.
C10_FailSoft == []C10_Layout /\ (Started ~> pdf.pc = "saved")

\* a document saved with the supplier chart alone, the two other images missing
C10_Witness ==
    /\ pdf.pc = "saved"
    /\ pdf.saves = 1
    /\ Len(Images) = 1
    /\ Images[1].sec = "bar"
    /\ Images[1].y = 20
    /\ Len(pdf.entries) > 0

\* the three charts, and their place in the order pie, suppliers, categories
ChartNames == {"pie", "bar", "conta"}

ChartRank(name) == CASE name = "pie" -> 1 [] name = "bar" -> 2 [] name = "conta" -> 3

\* the chart images of a document under way, in the order they were placed
ChartImages(c) == Select(c.prims, "image", ChartNames)

\* the image requests (toPng) of an export that have been issued and not resolved
Outstanding(c) == IF c.pc \in ChartNames THEN {c.pc} ELSE {}

\* the chart images of c are placed in the order pie, suppliers, categories
InChartOrder(c) ==
    LET imgs == ChartImages(c)
    IN  \A i, k \in 1..Len(imgs) : i < k => ChartRank(imgs[i].sec) < ChartRank(imgs[k].sec)

SecRank(p) ==
    CASE p.sec = "cover" -> 1
      [] p.sec \in ChartNames -> 2
      [] p.sec = "narrative" -> 3
      [] p.sec = "consolidated" -> 4

\* the phase of an export: not started, awaiting a chart image, done
PcPhase(c) == CASE c.pc = "idle" -> 0 [] c.pc \in ChartNames -> 1 [] c.pc = "saved" -> 2

\* the primitives of the document of c whose sections are among ranks
OfRanks(c, ranks) == {i \in 1..Len(c.prims) : SecRank(c.prims[i]) \in ranks}

\* the document in every state of an export: the sections in order, the charts
\* and the text on either side of one page break, written at the end only
C12_Document ==
    Started =>
       /\ \A i, k \in 1..Len(pdf.prims) : i < k => SecRank(pdf.prims[i]) <= SecRank(pdf.prims[k])
       /\ Len(pdf.prims) > 0 /\ pdf.prims[1].sec = "cover"
       /\ \A i \in OfRanks(pdf, {1, 2}) : pdf.prims[i].page = 1
       /\ \A i \in OfRanks(pdf, {3, 4}) : pdf.prims[i].page >= 2
       /\ \A i \in OfRanks(pdf, {3}) : i - 1 \in OfRanks(pdf, {1, 2}) => pdf.prims[i].page = 2
       /\ \A i \in OfRanks(pdf, {3}), k \in OfRanks(pdf, {4}) : i < k
       /\ pdf.pc # "saved" => pdf.saves = 0 /\ OfRanks(pdf, {3, 4}) = {}
       /\ pdf.pc = "saved" =>
             /\ pdf.saves = 1
             /\ OfRanks(pdf, {4}) # {}
             /\ SecRank(pdf.prims[Len(pdf.prims)]) = 4

\* C12: the document is composed in the order cover, charts, narrative,
\* consolidated, done: the sections of its primitives never go back in that
\* order, a page break lies after the last chart and before the first narrative
\* primitive, every per-entry narrative line precedes every consolidated line,
\* and the document is written once, after the last consolidated line: an export
\* only moves forward, adds to what it has placed, and changes nothing once written.
C12_SectionOrder ==
    /\ []C12_Document
    /\ [][pdf' # pdf =>
             /\ PcPhase(pdf) < 2
             /\ PcPhase(pdf') >= PcPhase(pdf)
             /\ PcPhase(pdf) = 1 =>
                   /\ Len(pdf'.prims) > Len(pdf.prims)
                   /\ SubSeq(pdf'.prims, 1, Len(pdf.prims)) = pdf.prims]_vars

\* a written document with a chart, per-entry lines and the consolidated block
C12_Witness ==
    /\ pdf.pc = "saved"
    /\ pdf.saves = 1
    /\ Len(ChartImages(pdf)) >= 2
    /\ Cardinality(OfRanks(pdf, {3})) > 4
    /\ Cardinality(OfRanks(pdf, {4})) > 2

RECURSIVE JoinTexts(_, _)
\* the texts of the consolidated lines among the first n primitives of c, joined
JoinTexts(c, n) ==
    IF n = 0 THEN ""
    ELSE JoinTexts(c, n - 1) \o (IF SecRank(c.prims[n]) = 4 THEN c.prims[n].text ELSE "")

\* the on-screen summary of an empty record set
EmptySummary ==
    /\ resumo.totalInicial = Num(0)
    /\ resumo.totalFinal = Num(0)
    /\ resumo.economia = Num(0)
    /\ resumo.percent = "0%"
    /\ resumo.contaTop = "Nenhuma"
    /\ resumo.valorContaTop = Num(0)

\* the written document of an empty record set: the first page with the title
\* and the chart images, the second with its heading and the consolidated block
EmptyDocument ==
    /\ pdf.pages = 2
    /\ \A i \in 1..Len(pdf.prims) :
          \/ /\ i = 1 /\ pdf.prims[i].kind = "text" /\ pdf.prims[i].sec = "cover"
             /\ pdf.prims[i].page = 1 /\ pdf.prims[i].y = 10
          \/ pdf.prims[i].kind = "image" /\ pdf.prims[i].page = 1
          \/ /\ pdf.prims[i].kind = "text" /\ pdf.prims[i].sec = "narrative"
             /\ pdf.prims[i].page = 2 /\ pdf.prims[i].y = 20
          \/ SecRank(pdf.prims[i]) = 4 /\ pdf.prims[i].page = 2
    /\ Cardinality(OfRanks(pdf, {3})) = 1
    /\ JoinTexts(pdf, Len(pdf.prims)) =
          "No consolidado geral, o valor total cotado foi de R$ 0,00, enquanto o valor final negociado foi de R$ 0,00."
          \o "Esse resultado representou uma economia absoluta de R$ 0,00, equivalente a 0.00%. A conta mais utilizada foi Nenhuma."

ExpectedNumber(cell) ==
    CASE IsNum(cell) -> cell
      [] cell = Str("500") -> Num(500)
      [] OTHER -> Num(0)

\* what a text cell is to be read as: its text, and a missing cell as ""
ExpectedText(cell) == IF IsStr(cell) THEN cell.str ELSE ""

\* the entry that is to be built from one row
ExpectedEntry(row) ==
    [fornecedor   |-> ExpectedText(row.Fornecedor),
     valorInicial |-> ExpectedNumber(row.ValorCotado),
     valorFinal   |-> ExpectedNumber(row.ValorFinal),
     contaRazao   |-> ExpectedText(row.ContaRazao),
     area         |-> ExpectedText(row.Area),
     mesAno       |-> ExpectedText(row.MesAno),
     periodo      |-> ExpectedText(row.Periodo)]

\* C15: an import never drops or reorders rows: after every import the record
\* set is as long as the sequence of rows read, and its i-th entry is built from
\* the i-th row, a missing or non-numeric numeric cell read as 0 and a missing
\* text cell as the empty string.
C15_RowsKept ==
    lastOp = "import" =>
       /\ Len(data) = Len(json)
       /\ \A i \in 1..Len(json) : data[i] = ExpectedEntry(json[i])

\* two rows were imported, the first with a non-numeric and a missing numeric cell
\* and missing texts, the second well formed
C15_Witness ==
    /\ lastOp = "import"
    /\ Len(json) = 2
    /\ json[1].ValorCotado = Str("abc")
    /\ json[1].ValorFinal = Undefined
    /\ json[1].Fornecedor = Undefined
    /\ json[2].ValorFinal = Str("500")
    /\ data[1].valorInicial = Num(0)
    /\ data[1].fornecedor = ""
    /\ data[2].valorFinal = Num(500)

RECURSIVE SumField(_, _, _)
\* the sum of one numeric field over the entries from the i-th on
SumField(d, field, i) ==
    IF i > Len(d) THEN 0 ELSE d[i][field].num + SumField(d, field, i + 1)

\* the entries of the record set, as a bag of (quoted value, final value)
ValuePairs(d) == {<<i, d[i].valorInicial.num, d[i].valorFinal.num>> : i \in 1..Len(d)}

\* C16: for every record set totalQuoted is the sum of the quoted values,
\* totalFinal the sum of the final values and absoluteSavings exactly
\* totalQuoted - totalFinal, whether or not the final value stays below the
\* quoted one; the consolidated text of a document reports the same difference;
\* entries (1000, 800) and (500, 500) give 1500, 1300 and 200.
C16_Totals ==
    /\ resumo.totalInicial = Num(SumField(data, "valorInicial", 1))
    /\ resumo.totalFinal = Num(SumField(data, "valorFinal", 1))
    /\ resumo.economia = Num(resumo.totalInicial.num - resumo.totalFinal.num)
    /\ HasSub(Consolidado(resumo)[2],
              "economia absoluta de "
                 \o FormatBRL(Num(SumField(data, "valorInicial", 1) - SumField(data, "valorFinal", 1)))
                 \o ", equivalente")
    /\ ({<<p[2], p[3]>> : p \in ValuePairs(data)} = {<<1000, 800>>, <<500, 500>>} /\ Len(data) = 2)
          => /\ resumo.totalInicial = Num(1500)
             /\ resumo.totalFinal = Num(1300)
             /\ resumo.economia = Num(200)

\* the record set of the example, an entry typed in and an imported one
C16_Witness ==
    /\ Len(data) = 2
    /\ {<<p[2], p[3]>> : p \in ValuePairs(data)} = {<<1000, 800>>, <<500, 500>>}
    /\ resumo.economia = Num(200)

\* a record set whose final values exceed the quoted ones: the savings are negative
C16_WitnessNegative ==
    /\ Len(data) > 0
    /\ resumo.totalFinal.num > resumo.totalInicial.num
    /\ resumo.economia.num < 0

----------------------------------------------------------------------------
(* Export to a workbook and import of it                                   *)

\* the most entries of a record set that is exported to a workbook
MaxRound == 2

\* entries as handleAdd and an import leave them: one typed in with every field,
\* and the entries the rows of SheetRows give
RoundEntries ==
    { [fornecedor |-> "A → B", valorInicial |-> Num(1000), valorFinal |-> Num(800),
       contaRazao |-> "X", area |-> "Loja", mesAno |-> "Janeiro/2025", periodo |-> "Anual"] }
    \cup { RowToEntry(row) : row \in SheetRows }

InitRound ==
    /\ data \in UNION { [1..n -> RoundEntries] : n \in 0..MaxRound }
    /\ BlankForm
    /\ resumo = Render(data)
    /\ lastOp = "none"
    /\ json = <<>>
    /\ planilha = <<>>
    /\ pdf = PdfIdle

NextRound ==
    \/ exportToExcel
    \/ handleFileUpload
    \/ LimparUltimo

SpecRound == InitRound /\ [][NextRound]_vars

\* the import that follows Exportar Excel reads the workbook that was written
ImportsExported ==
    /\ lastOp = "exportToExcel"
    /\ lastOp' = "import"
    /\ json' \in ReadBacks(planilha)

\* C14: exporting a record set to a workbook and importing that workbook gives
\* a record set of the same length and order, whose quoted and final values are
\* exactly those of the original and whose texts are those of the original, an
\* optional field that is empty being read back as the empty string.
C14_RoundTrip ==
    [][ImportsExported =>
          /\ Len(data') = Len(data)
          /\ \A i \in 1..Len(data) :
                /\ data'[i].valorInicial = data[i].valorInicial
                /\ data'[i].valorFinal = data[i].valorFinal
                /\ data'[i].fornecedor = data[i].fornecedor
                /\ \A f \in {"contaRazao", "area", "mesAno", "periodo"} :
                      data'[i][f] = (IF data[i][f] # "" THEN data[i][f] ELSE "")]_vars

\* a workbook of two entries, one with its optional fields empty and one whose
\* values differ, was read back with the empty cells absent
C14_Witness ==
    /\ lastOp = "import"
    /\ Len(data) = 2
    /\ planilha = ToTabularRows(data)
    /\ json \in ReadBacks(planilha)
    /\ \E i \in 1..2 : json[i].Area = Undefined /\ data[i].area = ""
    /\ \E i \in 1..2 : data[i].valorInicial = Num(1000) /\ data[i].valorFinal = Num(800)

----------------------------------------------------------------------------
(* An export with the record set changed under it                          *)

\* the most entries of the record set an export starts from
MaxSnap == 2

\* the form with its four required fields typed in
FilledForm ==
    /\ fornecedorInicial = "A"
    /\ valorInicial = Str("1000")
    /\ fornecedorFinal = "B"
    /\ valorFinal = Str("800")
    /\ contaRazao = ""
    /\ area = ""
    /\ mes = ""
    /\ ano = ""
    /\ periodo = ""

InitSnap ==
    /\ data \in UNION { [1..n -> PdfEntries] : n \in 0..MaxSnap }
    /\ FilledForm
    /\ resumo = Render(data)
    /\ lastOp = "none"
    /\ json = <<>>
    /\ planilha = <<>>
    /\ pdf = PdfIdle

NextSnap ==
    \/ exportToPDF
    \/ toPngResolves
    \/ LimparTudo
    \/ LimparUltimo
    \/ handleAdd

SpecSnap == InitSnap /\ [][NextSnap]_vars

RECURSIVE JoinLines(_)
\* the strings of a sequence, joined
JoinLines(lines) ==
    IF Len(lines) = 0 THEN "" ELSE lines[1] \o JoinLines(SubSeq(lines, 2, Len(lines)))

RECURSIVE EntriesText(_)
\* the sentences of the entries, one entry after the other, joined
EntriesText(entries) ==
    IF Len(entries) = 0 THEN ""
    ELSE JoinLines(Texto(entries[1])) \o EntriesText(SubSeq(entries, 2, Len(entries)))

\* the texts of the primitives of c in the section sec, joined
SectionText(c, sec) ==
    LET lines == Select(c.prims, "text", {sec})
    IN  JoinLines([i \in 1..Len(lines) |-> lines[i].text])

====
